---- MODULE Spec2Model ----
(***************************************************************************)
(* Model of bracket-terminal's native main loop                            *)
(* (bracket-terminal/src/hal/native/mainloop.rs): the event-loop closure   *)
(* of main_loop, the Resize/Rescale Coordinator on_resize and the Frame    *)
(* Compositor tock.                                                        *)
(*                                                                         *)
(* One action models one invocation of the closure handed to el.run (one   *)
(* native event), from its first statement to its return or panic.  The    *)
(* variable `calls` logs, in order, the calls that invocation made to the  *)
(* collaborators that are not part of this file (BTerm, GL, the window,    *)
(* the consoles); `cb` records which event was delivered and the values    *)
(* the closure read on entry.                                              *)
(***************************************************************************)
EXTENDS Integers, Sequences, FiniteSets, TLC

\* ------------------------------------------------------------- bounds
\* Milliseconds the monotonic clock `now` shows when the event loop starts
\* (fonts and sprite sheets are uploaded between Instant::now() and el.run).
StartClock == 990
\* RedrawEventsCleared is not delivered once the clock is past this.
MaxClock == 1030
\* Milliseconds one frame (tick, draw, swap) takes, when it is not negligible.
FrameCost == 40
\* Highest native index N of MouseButton::Other(N) the environment sends.
MaxOther == 1
\* Milliseconds the event loop can stay blocked between two iterations.
StallMs == 1015
\* The event loop does not get blocked once the clock is past this.
MaxStallClock == 1030

\* -------------------------------------------------- program constants
\* frame_sleep_time.unwrap_or(33)
DefaultWait == 33
\* u64::min(33, wait_time - time_since_last_frame)
SleepCap == 33
\* Duration::as_secs: whole seconds of a millisecond count
MsPerSec == 1000

\* Option<T>: None is the empty sequence, Some(x) is <<x>>.
None == <<>>
Some(x) == <<x>>
IsSome(o) == o # <<>>
Unwrap(o) == o[1]

B2I(b) == IF b THEN 1 ELSE 0
Min(a, b) == IF a < b THEN a ELSE b

\* ------------------------------------------------------ environment
\* (inner_size, scale_factor) pairs the window can have; width 0 is a
\* minimized window.
WindowStates ==
    { [size |-> <<0, 0>>, scale |-> 1],
      [size |-> <<30, 36>>, scale |-> 1],
      [size |-> <<80, 40>>, scale |-> 2] }

\* bi.fonts[i].tile_size
FontTileSize == << <<8, 8>>, <<12, 16>> >>
\* bi.consoles[i].font_index (1-based here)
ConsoleFont == <<1, 2>>
Consoles == DOMAIN ConsoleFont

MyWindowId == "mine"
WindowIds == {"mine", "other"}

\* BACKEND.frame_sleep_time: None, or Some(milliseconds)
FrameSleepTimes == {None, Some(40)}

VARIABLES
    pc,                   \* startup | running | exited | panicked | failed
    window,               \* wc.window(): inner_size() and scale_factor()
    frame_sleep_time,     \* BACKEND.frame_sleep_time
    use_events,           \* INPUT.use_events
    resize_scaling,       \* BACKEND.resize_scaling
    queued_resize_event,  \* Option<ResizeEvent>
    quitting,             \* bterm.quitting
    control_flow,         \* *control_flow as the event loop keeps it
    clock,                \* now.elapsed().as_millis()
    prev_ms,
    prev_seconds,
    frames,
    fps,                  \* bterm.fps as <<numerator, denominator>>
    input_scale_factor,   \* INPUT's scale factor
    screen_scaler,        \* BACKEND.screen_scaler
    viewport,             \* GL viewport size
    backing_buffer,       \* BACKEND.backing_buffer: Option<size of the FBO>
    console_size,         \* per console: <<width, height>> in characters
    modifiers,            \* <<bterm.shift, bterm.alt, bterm.control>>
    request_screenshot,   \* BACKEND.request_screenshot is Some(_)
    post_scanlines,       \* bterm.post_scanlines
    cb,                   \* the event the last step delivered
    calls,                \* calls made by the last step, in order
    burst,                \* what Resize/Move/ScaleFactorChanged events read from the window
    tock_at               \* Option: clock reading at the start of the last tock

geometry == <<input_scale_factor, screen_scaler, viewport, backing_buffer, console_size>>
timing == <<prev_ms, prev_seconds, frames, fps>>
config == <<frame_sleep_time, use_events, resize_scaling>>
vars == <<pc, window, config, queued_resize_event, quitting, control_flow, clock,
          timing, geometry, modifiers, request_screenshot, post_scanlines,
          cb, calls, burst, tock_at>>

\* ------------------------------------------------------------ helpers
\* One logged call: the callee, a variant tag and its integer arguments.
Call(fn, tag, args) == [fn |-> fn, tag |-> tag, args |-> args]

Max2(a, b) == IF a > b THEN a ELSE b

RECURSIVE MaxTile(_, _)
\* The fold of largest_active_font over consoles 1..n, for one tile dimension.
MaxTile(n, dim) ==
    IF n = 0 THEN 0
    ELSE Max2(MaxTile(n - 1, dim), FontTileSize[ConsoleFont[n]][dim])

\* largest_active_font(): (max tile width, max tile height) over the consoles.
LargestActiveFont == <<MaxTile(Len(ConsoleFont), 1), MaxTile(Len(ConsoleFont), 2)>>

\* The part of a logical extent that whole tiles of the largest font cover.
Smooth(extent, tile) == IF tile = 0 THEN extent ELSE extent - (extent % tile)

\* ScreenScaler::change_physical_size_smooth (defined outside this file): the
\* available area is the physical size divided by the DPI scale, cut down to
\* whole tiles of the largest active font.
ChangePhysicalSizeSmooth(width, height, scale, max_font) ==
    [physical_size |-> <<width, height>>,
     scale_factor |-> scale,
     available_width |-> Smooth(width \div scale, max_font[1]),
     available_height |-> Smooth(height \div scale, max_font[2])]

\* A character count rounded up: not what the code computes.
CharSizeCeil(available, tile) == (available + tile - 1) \div tile

\* chr_w = available_width / font_size.0 (u32 division)
CharSize(available, tile) == available \div tile

\* The console loop of on_resize: the new character size of console i.
RescaledConsoles(scaler) ==
    [i \in Consoles |->
        <<CharSize(scaler.available_width, FontTileSize[ConsoleFont[i]][1]),
          CharSize(scaler.available_height, FontTileSize[ConsoleFont[i]][2])>>]

\* on_resize(bterm, physical_size, dpi_scale_factor, send_event), run on the
\* geometry g; fbo_ok says whether Framebuffer::build_fbo returns Ok.  The
\* result carries the geometry the call leaves behind, the calls it made and
\* whether it returned Ok(()).
OnResize(g, physical_size, dpi_scale_factor, send_event, fbo_ok) ==
    LET font_max_size == LargestActiveFont
        scaler == ChangePhysicalSizeSmooth(physical_size[1], physical_size[2],
                                           dpi_scale_factor, font_max_size)
        head == <<Call("on_resize", "", <<physical_size[1], physical_size[2],
                                           dpi_scale_factor, B2I(send_event)>>)>>
                \o (IF send_event
                    THEN <<Call("resize_pixels", "",
                                <<physical_size[1], physical_size[2],
                                  B2I(resize_scaling)>>)>>
                    ELSE <<>>)
                \o <<Call("viewport", "", physical_size),
                     Call("build_fbo", IF fbo_ok THEN "Ok" ELSE "Err", physical_size)>>
    IN  IF ~fbo_ok
        THEN [ok |-> FALSE,
              input_scale_factor |-> dpi_scale_factor,
              screen_scaler |-> scaler,
              viewport |-> physical_size,
              backing_buffer |-> g.backing_buffer,
              console_size |-> g.console_size,
              calls |-> head]
        ELSE [ok |-> TRUE,
              input_scale_factor |-> dpi_scale_factor,
              screen_scaler |-> scaler,
              viewport |-> physical_size,
              backing_buffer |-> Some(physical_size),
              console_size |-> IF resize_scaling /\ send_event
                               THEN RescaledConsoles(scaler)
                               ELSE g.console_size,
              calls |-> head \o
                        <<Call("on_event", "Resized",
                               <<scaler.available_width, scaler.available_height,
                                 dpi_scale_factor>>)>>
                        \o (IF resize_scaling /\ send_event
                            THEN <<Call("set_char_size", "", <<>>)>>
                            ELSE <<>>)]

\* The geometry as a record, as on_resize reads it.
Geometry ==
    [input_scale_factor |-> input_scale_factor,
     screen_scaler |-> screen_scaler,
     viewport |-> viewport,
     backing_buffer |-> backing_buffer,
     console_size |-> console_size]

\* The geometry variables take the values on_resize left in r.
SetGeometry(r) ==
    /\ input_scale_factor' = r.input_scale_factor
    /\ screen_scaler' = r.screen_scaler
    /\ viewport' = r.viewport
    /\ backing_buffer' = r.backing_buffer
    /\ console_size' = r.console_size

\* ------------------------------------------------------- the scheduler
\* BACKEND.lock().frame_sleep_time.unwrap_or(33)
WaitTime(fst) == IF IsSome(fst) THEN Unwrap(fst) ELSE DefaultWait

\* A gate that compares with the default budget, not the configured one.
BudgetElapsedDefault(execute_ms, wait_time) == execute_ms >= DefaultWait

\* if execute_ms >= wait_time
BudgetElapsed(execute_ms, wait_time) == execute_ms >= wait_time

\* The closure's first statements: *control_flow = TICK_TYPE, then Exit if
\* bterm.quitting.  ControlFlow::Exit is sticky in the event loop: once set,
\* an assignment of Poll is undone when the closure returns.
EntryFlow(cf, quit) == IF cf = "Exit" \/ quit THEN "Exit" ELSE "Poll"

\* What the application callback gamestate.tick(bterm) may do to the state
\* this file reads: ask to quit, ask for a screenshot, flip post_scanlines;
\* at most one of them in one frame.
AppChoices ==
    {a \in [quit : BOOLEAN, shot : BOOLEAN, toggle : BOOLEAN] :
        B2I(a.quit) + B2I(a.shot) + B2I(a.toggle) <= 1}

\* An estimate that forgets to divide by the seconds elapsed.
FpsPerUpdate(count, seconds) == <<count, 1>>

\* bterm.fps = *frames as f32 / (now_seconds - *prev_seconds) as f32, kept as
\* the pair <<dividend, divisor>>.
FpsEstimate(count, seconds) == <<count, seconds>>

\* tock(...), entered when the clock reads t, with the application callback
\* doing app; render_ok and save_ok say whether render_consoles and
\* image::save_buffer return Ok.  render_consoles().unwrap() panics on an Err,
\* and nothing of tock after it runs.  The result of save_buffer goes through
\* expect: an Err panics, and the statement after it,
\* be.request_screenshot = None, does not run.
Tock(t, app, render_ok, save_ok) ==
    LET now_seconds == t \div MsPerSec
        frames1 == frames + 1
        second == now_seconds > prev_seconds
        now_ms == t
        bound == post_scanlines
        quitting1 == quitting \/ app.quit
        shot1 == request_screenshot \/ app.shot
        scan1 == IF app.toggle THEN ~post_scanlines ELSE post_scanlines
        upto_tick == <<Call("tock", "", <<t>>), Call("check_console_backing", "", <<>>),
                       Call("rebuild_consoles", "", <<>>)>>
                     \o (IF bound THEN <<Call("bind_backing_buffer", "", <<>>)>> ELSE <<>>)
                     \o <<Call("clear", "", <<>>),
                          Call("tick", "", <<>>),
                          Call("render_consoles", IF render_ok THEN "Ok" ELSE "Err", <<>>)>>
        upto_shot == upto_tick
                     \o (IF scan1 THEN <<Call("composite", "", <<>>)>> ELSE <<>>)
                     \o (IF shot1
                         THEN <<Call("save_buffer", IF save_ok THEN "Ok" ELSE "Err", <<>>)>>
                         ELSE <<>>)
        base == [ok |-> TRUE,
                 frames |-> IF second THEN 0 ELSE frames1,
                 fps |-> IF second THEN FpsEstimate(frames1, now_seconds - prev_seconds)
                         ELSE fps,
                 prev_seconds |-> IF second THEN now_seconds ELSE prev_seconds,
                 prev_ms |-> IF now_ms > prev_ms THEN now_ms ELSE prev_ms,
                 quitting |-> quitting1,
                 post_scanlines |-> scan1,
                 request_screenshot |-> FALSE,
                 calls |-> upto_shot]
    IN  IF ~render_ok
        THEN [base EXCEPT !.ok = FALSE, !.request_screenshot = shot1,
                          !.calls = upto_tick]
        ELSE IF shot1 /\ ~save_ok
        THEN [base EXCEPT !.ok = FALSE, !.request_screenshot = shot1]
        ELSE base

\* The variables tock writes take the values it left in r.
SetTock(r) ==
    /\ frames' = r.frames
    /\ fps' = r.fps
    /\ prev_seconds' = r.prev_seconds
    /\ prev_ms' = r.prev_ms
    /\ quitting' = r.quitting
    /\ post_scanlines' = r.post_scanlines
    /\ request_screenshot' = r.request_screenshot

\* What a step that delivers no event, or an event the closure ignores, records.
NoBurst == [stale |-> FALSE, last |-> None, newer |-> None]
Delivered(kind, wid) ==
    [kind |-> kind, wid |-> wid, accepted |-> FALSE, wait |-> 0,
     applied |-> NoBurst, flow |-> control_flow, quit |-> quitting, input |-> None]

\* ------------------------------------------------------------ startup
InitialConsoleSize == [i \in Consoles |-> <<5, 5>>]

\* The state when main_loop has taken the window out of BACKEND and is about
\* to run the startup on_resize: prev_seconds, prev_ms and frames as lines
\* 92-95 set them, the geometry as the window was built.
Init ==
    /\ pc = "startup"
    /\ window \in WindowStates
    /\ frame_sleep_time \in FrameSleepTimes
    /\ use_events \in BOOLEAN
    /\ resize_scaling \in BOOLEAN
    /\ queued_resize_event = None
    /\ quitting = FALSE
    /\ control_flow = "Poll"
    /\ clock = StartClock
    /\ prev_ms = 0
    /\ prev_seconds = 0
    /\ frames = 0
    /\ fps = <<0, 1>>
    /\ input_scale_factor = window.scale
    /\ screen_scaler = ChangePhysicalSizeSmooth(window.size[1], window.size[2],
                                                window.scale, LargestActiveFont)
    /\ viewport = window.size
    /\ backing_buffer = Some(window.size)
    /\ console_size = InitialConsoleSize
    /\ modifiers = <<FALSE, FALSE, FALSE>>
    /\ request_screenshot = FALSE
    /\ post_scanlines = FALSE
    /\ cb = [kind |-> "none", wid |-> MyWindowId, accepted |-> FALSE, wait |-> 0,
             applied |-> NoBurst, flow |-> "Poll", quit |-> FALSE, input |-> None]
    /\ calls = <<>>
    /\ burst = NoBurst
    /\ tock_at = None

\* on_resize(&mut bterm, wc.window().inner_size(), wc.window().scale_factor(),
\* true)?  -- an Err makes main_loop return before el.run.
StartupResize ==
    /\ pc = "startup"
    /\ \E fbo_ok \in BOOLEAN :
         \E r \in {OnResize(Geometry, window.size, window.scale, TRUE, fbo_ok)} :
             /\ SetGeometry(r)
             /\ calls' = r.calls
             /\ pc' = IF r.ok THEN "running" ELSE "failed"
    /\ cb' = Delivered("startup", MyWindowId)
    /\ UNCHANGED <<window, config, queued_resize_event, quitting, control_flow, clock,
                   timing, modifiers, request_screenshot, post_scanlines, burst, tock_at>>

\* ------------------------------------------------- the event translator
\* A predicate that takes every window for the owned one.
IsAnyWindow(wid) == TRUE

\* *window_id != my_window_id  =>  return
IsMyWindow(wid) == wid = MyWindowId

\* A slot that keeps the first pending record instead of the latest.
QueueResizeKeepFirst(old, physical_size, scale_factor) ==
    IF IsSome(old) THEN old
    ELSE Some([physical_size |-> physical_size, dpi_scale_factor |-> scale_factor,
               send_event |-> TRUE])

\* queued_resize_event = Some(ResizeEvent { physical_size, dpi_scale_factor:
\* scale_factor, send_event: true })
QueueResize(old, physical_size, scale_factor) ==
    Some([physical_size |-> physical_size, dpi_scale_factor |-> scale_factor,
          send_event |-> TRUE])

\* A Resize/Move arm that resizes at once, as the lines commented out in both
\* arms did: on_resize(&mut bterm, physical_size, scale_factor, true).
OnReceiptImmediate(g, physical_size, scale_factor) ==
    OnResize(g, physical_size, scale_factor, TRUE, TRUE)

\* What the Resized and Moved arms do to the geometry: nothing (wc.resize and
\* on_resize are commented out there).
OnReceipt(g, physical_size, scale_factor) == g

\* The burst after one more Resize/Move event recorded `pair`: the latest
\* pair, and whether an earlier event of the burst recorded another one.
Recorded(b, pair) ==
    [stale |-> b.stale \/ (IsSome(b.last) /\ Unwrap(b.last) # pair),
     last |-> Some(pair),
     newer |-> None]

\* The record after ScaleFactorChanged read `pair` from the window without
\* putting it in the pending slot: when a pair is pending and differs, `pair`
\* is newer than what is pending.
ReadOnly(b, pair) ==
    [b EXCEPT !.newer = IF IsSome(b.last) /\ Unwrap(b.last) # pair
                        THEN Some(pair) ELSE None]

\* An arm of the match that changes nothing but by the calls it makes:
\* `made` when the event is for the owned window, nothing otherwise.
Passive(kind, wid, made) ==
    /\ cb' = Delivered(kind, wid)
    /\ control_flow' = EntryFlow(control_flow, quitting)
    /\ calls' = IF IsMyWindow(wid) THEN made ELSE <<>>
    /\ UNCHANGED <<pc, window, config, queued_resize_event, quitting, clock, timing,
                   geometry, modifiers, request_screenshot, post_scanlines, burst,
                   tock_at>>

\* The arm of Resized and Moved: record the window's current size and scale.
Queue(kind, wid, made) ==
    /\ cb' = Delivered(kind, wid)
    /\ control_flow' = EntryFlow(control_flow, quitting)
    /\ IF IsMyWindow(wid)
       THEN /\ calls' = made
            /\ queued_resize_event' =
                   QueueResize(queued_resize_event, window.size, window.scale)
            /\ burst' = Recorded(burst, [physical_size |-> window.size,
                                          dpi_scale_factor |-> window.scale])
            /\ SetGeometry(OnReceipt(Geometry, window.size, window.scale))
       ELSE /\ calls' = <<>>
            /\ UNCHANGED <<queued_resize_event, burst, geometry>>
    /\ UNCHANGED <<pc, window, config, quitting, clock, timing, modifiers,
                   request_screenshot, post_scanlines, tock_at>>

Positions == {<<5, 7>>}

\* bterm.on_event(BEvent::Moved { new_position })
MovedCalls(pos) == <<Call("on_event", "Moved", pos)>>

\* WindowEvent::Moved(physical_position)
Moved(wid) ==
    /\ pc = "running"
    /\ \E pos \in Positions : Queue("Moved", wid, MovedCalls(pos))

\* WindowEvent::Resized(_physical_size)
Resized(wid) ==
    /\ pc = "running"
    /\ Queue("Resized", wid, <<>>)

\* A CloseRequested arm that exits whatever INPUT.use_events says.
CloseRequestedFlowAlways(flow) == "Exit"

\* if !INPUT.lock().use_events { *control_flow = ControlFlow::Exit; }
CloseRequestedFlow(flow) == IF ~use_events THEN "Exit" ELSE flow

\* else { bterm.on_event(BEvent::CloseRequested); }
CloseRequestedCalls ==
    IF ~use_events THEN <<>> ELSE <<Call("on_event", "CloseRequested", <<>>)>>

\* WindowEvent::CloseRequested
CloseRequested(wid) ==
    /\ pc = "running"
    /\ cb' = Delivered("CloseRequested", wid)
    /\ IF IsMyWindow(wid)
       THEN /\ control_flow' = CloseRequestedFlow(EntryFlow(control_flow, quitting))
            /\ calls' = CloseRequestedCalls
       ELSE /\ control_flow' = EntryFlow(control_flow, quitting)
            /\ calls' = <<>>
    /\ UNCHANGED <<pc, window, config, queued_resize_event, quitting, clock, timing,
                   geometry, modifiers, request_screenshot, post_scanlines, burst,
                   tock_at>>

Characters == {65}

\* WindowEvent::ReceivedCharacter(char)
ReceivedCharacter(wid) ==
    /\ pc = "running"
    /\ \E c \in Characters :
         Passive("ReceivedCharacter", wid, <<Call("on_event", "Character", <<c>>)>>)

\* WindowEvent::Focused(focused)
Focused(wid) ==
    /\ pc = "running"
    /\ \E focused \in BOOLEAN :
         Passive("Focused", wid, <<Call("on_event", "Focused", <<B2I(focused)>>)>>)

\* WindowEvent::CursorMoved { position, .. }
CursorMoved(wid) ==
    /\ pc = "running"
    /\ \E pos \in Positions :
         Passive("CursorMoved", wid, <<Call("on_mouse_position", "", pos)>>)

\* WindowEvent::CursorEntered { .. }
CursorEntered(wid) ==
    /\ pc = "running"
    /\ Passive("CursorEntered", wid, <<Call("on_event", "CursorEntered", <<>>)>>)

\* WindowEvent::CursorLeft { .. }
CursorLeft(wid) ==
    /\ pc = "running"
    /\ Passive("CursorLeft", wid, <<Call("on_event", "CursorLeft", <<>>)>>)

\* glutin's MouseButton: Left, Right, Middle, Other(num)
MouseButtons ==
    {[kind |-> k, num |-> 0] : k \in {"Left", "Right", "Middle"}}
    \cup {[kind |-> "Other", num |-> n] : n \in 0..MaxOther}

\* glutin's ElementState
ElementStates == {"Pressed", "Released"}

\* A mapping that numbers the other buttons from 2, so that Other(0) is
\* taken for Middle.
ButtonIdFromTwo(button) ==
    CASE button.kind = "Left" -> 0
      [] button.kind = "Right" -> 1
      [] button.kind = "Middle" -> 2
      [] OTHER -> 2 + button.num

\* let button = match button { Left => 0, Right => 1, Middle => 2,
\*                             Other(num) => 3 + *num as usize }
ButtonId(button) ==
    CASE button.kind = "Left" -> 0
      [] button.kind = "Right" -> 1
      [] button.kind = "Middle" -> 2
      [] OTHER -> 3 + button.num

\* bterm.on_mouse_button(button, *state == ElementState::Pressed)
MouseButtonCalls(button, state) ==
    <<Call("on_mouse_button", "", <<ButtonId(button), B2I(state = "Pressed")>>)>>

\* WindowEvent::MouseInput { button, state, .. }
MouseInput(wid) ==
    /\ pc = "running"
    /\ \E button \in MouseButtons, state \in ElementStates :
         /\ cb' = [Delivered("MouseInput", wid)
                     EXCEPT !.input = Some([button |-> button, state |-> state])]
         /\ calls' = IF IsMyWindow(wid) THEN MouseButtonCalls(button, state) ELSE <<>>
    /\ control_flow' = EntryFlow(control_flow, quitting)
    /\ UNCHANGED <<pc, window, config, queued_resize_event, quitting, clock, timing,
                   geometry, modifiers, request_screenshot, post_scanlines, burst,
                   tock_at>>

\* virtual_keycode of a KeyboardInput: None, or Some(key)
KeyCodes == {None, Some(10)}

\* WindowEvent::KeyboardInput { input: KeyboardInput { virtual_keycode:
\* Some(virtual_keycode), state, scancode, .. }, .. }; an input without a
\* virtual keycode falls to the `_ => {}` arm.
KeyboardInput(wid) ==
    /\ pc = "running"
    /\ \E key \in KeyCodes, pressed \in BOOLEAN :
         Passive("KeyboardInput", wid,
                 IF IsSome(key)
                 THEN <<Call("on_key", "", <<Unwrap(key), B2I(pressed)>>)>>
                 ELSE <<>>)

ModifierStates == {<<FALSE, FALSE, FALSE>>, <<TRUE, FALSE, TRUE>>}

\* WindowEvent::ModifiersChanged(modifiers)
ModifiersChanged(wid) ==
    /\ pc = "running"
    /\ \E m \in ModifierStates :
         /\ cb' = Delivered("ModifiersChanged", wid)
         /\ modifiers' = IF IsMyWindow(wid) THEN m ELSE modifiers
    /\ control_flow' = EntryFlow(control_flow, quitting)
    /\ calls' = <<>>
    /\ UNCHANGED <<pc, window, config, queued_resize_event, quitting, clock, timing,
                   geometry, request_screenshot, post_scanlines, burst, tock_at>>

\* Any other WindowEvent: the inner `_ => {}` arm.
OtherWindowEvent(wid) ==
    /\ pc = "running"
    /\ Passive("OtherWindowEvent", wid, <<>>)

\* Any event that is neither RedrawEventsCleared nor a WindowEvent (NewEvents,
\* MainEventsCleared, ...): the outer `_ => {}` arm.
OtherEvent ==
    /\ pc = "running"
    /\ Passive("OtherEvent", MyWindowId, <<>>)

NewInnerSizes == {<<80, 40>>}

\* WindowEvent::ScaleFactorChanged { new_inner_size, .. }: wc.resize, then
\* on_resize(.., false).unwrap(), then the ScaleFactorChanged event.
ScaleFactorChanged(wid) ==
    /\ pc = "running"
    /\ \E new_inner_size \in NewInnerSizes, fbo_ok \in BOOLEAN :
         /\ cb' = Delivered("ScaleFactorChanged", wid)
         /\ IF IsMyWindow(wid)
            THEN \E r \in {OnResize(Geometry, window.size, window.scale, FALSE, fbo_ok)} :
                     /\ SetGeometry(r)
                     /\ pc' = IF r.ok THEN pc ELSE "panicked"
                     /\ calls' = <<Call("wc_resize", "", window.size)>> \o r.calls
                                 \o (IF r.ok
                                     THEN <<Call("on_event", "ScaleFactorChanged",
                                                 <<new_inner_size[1], new_inner_size[2],
                                                   window.scale>>)>>
                                     ELSE <<>>)
            ELSE /\ calls' = <<>>
                 /\ UNCHANGED <<pc, geometry>>
    /\ burst' = IF IsMyWindow(wid)
                THEN ReadOnly(burst, [physical_size |-> window.size,
                                      dpi_scale_factor |-> window.scale])
                ELSE burst
    /\ control_flow' = EntryFlow(control_flow, quitting)
    /\ UNCHANGED <<window, config, queued_resize_event, quitting, clock, timing,
                   modifiers, request_screenshot, post_scanlines, tock_at>>

\* ------------------------------------------------- RedrawEventsCleared
\* The call that fails in an accepted tick, if any: Framebuffer::build_fbo
\* inside on_resize (it runs only with a resize pending), render_consoles,
\* image::save_buffer (only with a screenshot requested) or
\* wc.swap_buffers.  All four results are unwrapped, so the failure ends the
\* invocation with a panic.
PossibleFaults(app) ==
    {"none", "render_consoles", "swap_buffers"}
    \cup (IF IsSome(queued_resize_event) THEN {"build_fbo"} ELSE {})
    \cup (IF request_screenshot \/ app.shot THEN {"save_buffer"} ELSE {})

\* spin_sleeper.sleep(min(33, wait_time - time_since_last_frame)) when the
\* iteration cost less than the budget; no sleep otherwise.
SleepDelay(wait_time, time_since_last_frame) ==
    IF time_since_last_frame < wait_time
    THEN Min(SleepCap, wait_time - time_since_last_frame)
    ELSE 0

SleepCalls(delay) == IF delay > 0 THEN <<Call("sleep", "", <<delay>>)>> ELSE <<>>

\* The body of the RedrawEventsCleared arm past the zero-width return, with the
\* budget gate open: the queued resize, tock, swap_buffers, clear_input_state
\* and the sleep.  frame_cost is the milliseconds the frame takes (what
\* frame_timer.elapsed() shows after it); `fault` is the call that fails.
AcceptedTick(wait_time, frame_cost, app, fault) ==
    LET pending == IsSome(queued_resize_event)
        resize == Unwrap(queued_resize_event)
        r == IF pending
             THEN OnResize(Geometry, resize.physical_size, resize.dpi_scale_factor,
                           resize.send_event, fault # "build_fbo")
             ELSE [Geometry EXCEPT !.input_scale_factor = input_scale_factor]
                  @@ [ok |-> TRUE, calls |-> <<>>]
        resize_calls == IF pending
                        THEN <<Call("wc_resize", "", resize.physical_size)>> \o r.calls
                        ELSE <<>>
        t1 == clock
        k == Tock(t1, app, fault # "render_consoles", fault # "save_buffer")
        delay == SleepDelay(wait_time, frame_cost)
        unchanged_tock == [frames |-> frames, fps |-> fps, prev_seconds |-> prev_seconds,
                           prev_ms |-> prev_ms,
                           quitting |-> quitting, post_scanlines |-> post_scanlines,
                           request_screenshot |-> request_screenshot]
    IN  IF ~r.ok
        THEN [pc |-> "panicked", geo |-> r, queued |-> queued_resize_event,
              tock |-> unchanged_tock, tock_at |-> tock_at, clock |-> t1,
              calls |-> resize_calls]
        ELSE IF ~k.ok
        THEN [pc |-> "panicked", geo |-> r, queued |-> None, tock |-> k,
              tock_at |-> Some(t1), clock |-> t1,
              calls |-> resize_calls \o k.calls]
        ELSE IF fault = "swap_buffers"
        THEN [pc |-> "panicked", geo |-> r, queued |-> None, tock |-> k,
              tock_at |-> Some(t1), clock |-> t1,
              calls |-> resize_calls \o k.calls
                        \o <<Call("swap_buffers", "Err", <<>>)>>]
        ELSE [pc |-> "running", geo |-> r, queued |-> None, tock |-> k,
              tock_at |-> Some(t1), clock |-> clock + frame_cost + delay,
              calls |-> resize_calls \o k.calls
                        \o <<Call("swap_buffers", "Ok", <<>>),
                             Call("clear_input_state", "", <<>>)>>
                        \o SleepCalls(delay)]

\* RedrawEventsCleared is the last event of an iteration of the event loop:
\* when the closure has returned from it, el.run reads *control_flow and
\* leaves the loop on Exit.
EndOfIteration(flow) == IF flow = "Exit" THEN "exited" ELSE "running"

\* A test that takes no window for minimized.
MinimizedNever(size) == FALSE

\* wc.window().inner_size().width == 0
Minimized(size) == size[1] = 0

\* The clock readings at which the window system still delivers
\* RedrawEventsCleared: up to MaxClock, and as long after the loop was
\* blocked as MaxClock is after StartClock.
Delivering(t) == (t - StartClock) % StallMs <= MaxClock - StartClock

\* Event::RedrawEventsCleared
RedrawEventsCleared ==
    /\ pc = "running"
    /\ Delivering(clock)
    /\ control_flow' = EntryFlow(control_flow, quitting)
    /\ LET wait_time == WaitTime(frame_sleep_time)
           execute_ms == clock - prev_ms
       IN  IF Minimized(window.size)
           THEN \* if wc.window().inner_size().width == 0 { return; }
                /\ cb' = [Delivered("RedrawEventsCleared", MyWindowId)
                            EXCEPT !.wait = wait_time]
                /\ calls' = <<>>
                /\ pc' = EndOfIteration(control_flow')
                /\ UNCHANGED <<queued_resize_event, quitting, clock, timing, geometry,
                               request_screenshot, post_scanlines, burst, tock_at>>
           ELSE IF ~BudgetElapsed(execute_ms, wait_time)
           THEN LET delay == SleepDelay(wait_time, 0)
                IN  /\ clock' = clock + delay
                    /\ cb' = [Delivered("RedrawEventsCleared", MyWindowId)
                                EXCEPT !.wait = wait_time]
                    /\ calls' = SleepCalls(delay)
                    /\ pc' = EndOfIteration(control_flow')
                    /\ UNCHANGED <<queued_resize_event, quitting, timing, geometry,
                                   request_screenshot, post_scanlines, burst, tock_at>>
           ELSE \E frame_cost \in {0, FrameCost}, app \in AppChoices :
                \E fault \in PossibleFaults(app) :
                \E o \in {AcceptedTick(wait_time, frame_cost, app, fault)} :
                      /\ clock' = o.clock
                      /\ pc' = IF o.pc = "panicked" THEN "panicked"
                                ELSE EndOfIteration(control_flow')
                      /\ SetGeometry(o.geo)
                      /\ queued_resize_event' = o.queued
                      /\ SetTock(o.tock)
                      /\ tock_at' = o.tock_at
                      /\ calls' = o.calls
                      /\ burst' = NoBurst
                      /\ cb' = [Delivered("RedrawEventsCleared", MyWindowId)
                                  EXCEPT !.accepted = TRUE, !.wait = wait_time,
                                         !.applied = burst]
    /\ UNCHANGED <<window, config, modifiers>>

\* ---------------------------------------------------------- environment
\* The event loop stays blocked for a while between two iterations (the
\* window is being dragged, the process is stopped): now.elapsed() is
\* StallMs further when the next event is delivered.
Stall ==
    /\ pc = "running"
    /\ clock <= MaxStallClock
    /\ clock' = clock + StallMs
    /\ cb' = Delivered("none", MyWindowId)
    /\ calls' = <<>>
    /\ UNCHANGED <<pc, window, config, queued_resize_event, quitting, control_flow,
                   timing, geometry, modifiers, request_screenshot, post_scanlines,
                   burst, tock_at>>

\* The window system gives the window another size or scale factor: what
\* wc.window().inner_size() and scale_factor() return from then on.
WindowChange ==
    /\ pc = "running"
    /\ \E w \in WindowStates \ {window} : window' = w
    /\ cb' = Delivered("none", MyWindowId)
    /\ calls' = <<>>
    /\ UNCHANGED <<pc, config, queued_resize_event, quitting, control_flow, clock,
                   timing, geometry, modifiers, request_screenshot, post_scanlines,
                   burst, tock_at>>

\* el.run leaves the loop once *control_flow is Exit: at the latest after the
\* RedrawEventsCleared of the current iteration, on some platforms before it.
LoopDestroyed ==
    /\ pc = "running"
    /\ control_flow = "Exit"
    /\ pc' = "exited"
    /\ cb' = Delivered("LoopDestroyed", MyWindowId)
    /\ calls' = <<>>
    /\ UNCHANGED <<window, config, queued_resize_event, quitting, control_flow, clock,
                   timing, geometry, modifiers, request_screenshot, post_scanlines,
                   burst, tock_at>>

Next ==
    \/ StartupResize
    \/ RedrawEventsCleared
    \/ \E wid \in WindowIds : Moved(wid)
    \/ \E wid \in WindowIds : Resized(wid)
    \/ \E wid \in WindowIds : CloseRequested(wid)
    \/ \E wid \in WindowIds : ReceivedCharacter(wid)
    \/ \E wid \in WindowIds : Focused(wid)
    \/ \E wid \in WindowIds : CursorMoved(wid)
    \/ \E wid \in WindowIds : CursorEntered(wid)
    \/ \E wid \in WindowIds : CursorLeft(wid)
    \/ \E wid \in WindowIds : MouseInput(wid)
    \/ \E wid \in WindowIds : ScaleFactorChanged(wid)
    \/ \E wid \in WindowIds : KeyboardInput(wid)
    \/ \E wid \in WindowIds : ModifiersChanged(wid)
    \/ \E wid \in WindowIds : OtherWindowEvent(wid)
    \/ OtherEvent
    \/ WindowChange
    \/ LoopDestroyed

\* Every event the window system can deliver, for the owned window and for
\* others, at any time.
Spec == Init /\ [][Next]_vars

\* The program when the window system delivers, of the window events, only
\* those the scheduler and the resize coordinator react to, all for the owned
\* window; the events that open and close every iteration of the event loop
\* (NewEvents, MainEventsCleared: OtherEvent) are delivered as ever.
SchedulerNext ==
    \/ StartupResize
    \/ RedrawEventsCleared
    \/ Moved(MyWindowId)
    \/ Resized(MyWindowId)
    \/ CloseRequested(MyWindowId)
    \/ ScaleFactorChanged(MyWindowId)
    \/ OtherEvent
    \/ WindowChange
    \/ LoopDestroyed

SpecScheduler == Init /\ [][SchedulerNext]_vars

\* The program when the window keeps the size and scale it started with and
\* the window system delivers every kind of event, for the owned window and
\* for another one.
TranslatorNext ==
    \/ StartupResize
    \/ RedrawEventsCleared
    \/ \E wid \in WindowIds : Moved(wid)
    \/ \E wid \in WindowIds : Resized(wid)
    \/ \E wid \in WindowIds : CloseRequested(wid)
    \/ \E wid \in WindowIds : ReceivedCharacter(wid)
    \/ \E wid \in WindowIds : Focused(wid)
    \/ \E wid \in WindowIds : CursorMoved(wid)
    \/ \E wid \in WindowIds : CursorEntered(wid)
    \/ \E wid \in WindowIds : CursorLeft(wid)
    \/ \E wid \in WindowIds : MouseInput(wid)
    \/ \E wid \in WindowIds : ScaleFactorChanged(wid)
    \/ \E wid \in WindowIds : KeyboardInput(wid)
    \/ \E wid \in WindowIds : ModifiersChanged(wid)
    \/ \E wid \in WindowIds : OtherWindowEvent(wid)
    \/ OtherEvent
    \/ LoopDestroyed

SpecTranslator == Init /\ [][TranslatorNext]_vars

\* The program when the window keeps its size and scale, no window event
\* arrives and the event loop can stay blocked between iterations: the
\* frames the compositor renders over several seconds.
CompositorNext ==
    \/ StartupResize
    \/ RedrawEventsCleared
    \/ Stall
    \/ OtherEvent
    \/ LoopDestroyed

SpecCompositor == Init /\ [][CompositorNext]_vars

\* ---------------------------------------------------------------- properties
\* The calls to fn the last step made, in order.
CallsOf(fn) == SelectSeq(calls, LAMBDA c : c.fn = fn)
Count(fn) == Len(CallsOf(fn))
Made(fn) == \E i \in DOMAIN calls : calls[i].fn = fn
\* The position of the first call to fn in the last step.
Idx(fn) == CHOOSE i \in DOMAIN calls :
               calls[i].fn = fn /\ \A j \in 1..(i - 1) : calls[j].fn # fn
\* The application events of one variant the last step appended.
EventsOf(tag) == SelectSeq(calls, LAMBDA c : c.fn = "on_event" /\ c.tag = tag)

\* The last step was a RedrawEventsCleared iteration that passed the budget gate.
AcceptedTickDone == cb.kind = "RedrawEventsCleared" /\ cb.accepted
\* The last step was the closure handling `kind` for the owned window.
Handled(kind) == cb.kind = kind /\ cb.wid = MyWindowId

\* C1: at an accepted tick on_resize runs exactly once when Resized/Moved
\* events arrived since the previous accepted tick, with the size and scale
\* the last of them recorded, and leaves the viewport, the scaler and the
\* input scale at that pair; it does not run when none arrived, nor in an
\* iteration the gate rejects, nor in the Resized and Moved arms themselves.
C1_ResizeCoalescing ==
    /\ AcceptedTickDone =>
         IF IsSome(cb.applied.last)
         THEN LET p == Unwrap(cb.applied.last)
              IN  /\ Count("on_resize") = 1
                  /\ CallsOf("on_resize")[1].args =
                         <<p.physical_size[1], p.physical_size[2], p.dpi_scale_factor, 1>>
                  /\ viewport = p.physical_size
                  /\ screen_scaler.physical_size = p.physical_size
                  /\ screen_scaler.scale_factor = p.dpi_scale_factor
                  /\ input_scale_factor = p.dpi_scale_factor
         ELSE Count("on_resize") = 0
    /\ (cb.kind = "RedrawEventsCleared" /\ ~cb.accepted) => Count("on_resize") = 0
    /\ cb.kind \in {"Resized", "Moved"} => Count("on_resize") = 0

\* An accepted tick applied a burst in which a later event overwrote the pair
\* an earlier one had recorded.
C1_Witness ==
    /\ AcceptedTickDone
    /\ cb.applied.stale
    /\ Count("on_resize") = 1
    /\ pc = "running"

\* C2: in an invocation of the closure that finds the quit condition
\* (bterm.quitting set, or Exit already requested), tock and swap_buffers do
\* not run.
C2_NoFrameAfterQuit ==
    (cb.kind \notin {"none", "startup", "LoopDestroyed"} /\ (cb.quit \/ cb.flow = "Exit"))
        => (~Made("tock") /\ ~Made("swap_buffers"))

\* C3: an accepted tick runs tock, swap_buffers and clear_input_state once
\* each, in that order, after the pending resize if there is one; any other
\* step runs none of the three.
C3_TickOrder ==
    IF AcceptedTickDone
    THEN /\ Count("tock") = 1
         /\ Count("swap_buffers") = 1
         /\ Count("clear_input_state") = 1
         /\ Idx("tock") < Idx("swap_buffers")
         /\ Idx("swap_buffers") < Idx("clear_input_state")
         /\ IsSome(cb.applied.last) => (Made("on_resize") /\ Idx("on_resize") < Idx("tock"))
    ELSE Count("tock") = 0 /\ Count("swap_buffers") = 0 /\ Count("clear_input_state") = 0

\* C4: with frame_sleep_time = Some(B), a step runs tock only when the clock is
\* at least B past prev_ms, and then this tock starts at least B after the
\* previous one.
C4_FrameCadence ==
    [][ (IsSome(frame_sleep_time) /\ (Made("tock"))')
          => /\ clock - prev_ms >= Unwrap(frame_sleep_time)
             /\ IsSome(tock_at) =>
                  Unwrap(tock_at') - Unwrap(tock_at) >= Unwrap(frame_sleep_time) ]_vars

\* A second tock ran under a configured budget.
C4_Witness ==
    /\ IsSome(frame_sleep_time)
    /\ AcceptedTickDone
    /\ Made("tock")
    /\ IsSome(tock_at)
    /\ Unwrap(tock_at) > StartClock

\* C5: the Resized and Moved arms for the owned window put the window's
\* current size and scale in the pending slot, make no call but Moved's one
\* Moved event, and leave the input scale, the scaler, the viewport, the
\* offscreen target and the console sizes as they were.
C5_ResizeMoveDeferred ==
    [][ (cb'.kind \in {"Resized", "Moved"} /\ cb'.wid = MyWindowId)
          => /\ \A i \in DOMAIN calls' : calls'[i].fn # "on_resize"
             /\ queued_resize_event' =
                    Some([physical_size |-> window.size,
                          dpi_scale_factor |-> window.scale, send_event |-> TRUE])
             /\ UNCHANGED geometry
             /\ IF cb'.kind = "Moved"
                THEN Len(calls') = 1 /\ calls'[1].fn = "on_event" /\ calls'[1].tag = "Moved"
                ELSE calls' = <<>> ]_vars

\* A Resized or Moved event recorded a size the geometry does not have yet.
C5_Witness ==
    /\ cb.kind \in {"Resized", "Moved"}
    /\ cb.wid = MyWindowId
    /\ IsSome(queued_resize_event)
    /\ Unwrap(queued_resize_event).physical_size # viewport

\* C6: the ScaleFactorChanged arm for the owned window runs on_resize with
\* send_event = false in the same invocation, leaves the console sizes as
\* they were and appends a ScaleFactorChanged event.
C6_ScaleFactorSync ==
    [][ (cb'.kind = "ScaleFactorChanged" /\ cb'.wid = MyWindowId)
          => /\ \E i \in DOMAIN calls' :
                   calls'[i].fn = "on_resize" /\ calls'[i].args[4] = 0
             /\ console_size' = console_size
             /\ \E i \in DOMAIN calls' :
                   calls'[i].fn = "on_event" /\ calls'[i].tag = "ScaleFactorChanged" ]_vars

\* C7: the CloseRequested arm for the owned window appends exactly one
\* CloseRequested event and does not itself ask for Exit when
\* INPUT.use_events is set; it appends nothing and sets Exit when it is not.
C7_ClosePolicy ==
    Handled("CloseRequested") =>
        IF use_events
        THEN /\ Len(calls) = 1
             /\ Len(EventsOf("CloseRequested")) = 1
             /\ control_flow = "Exit" => (cb.flow = "Exit" \/ cb.quit)
        ELSE /\ calls = <<>>
             /\ control_flow = "Exit"

\* A CloseRequested event was turned into an application event and the loop
\* goes on.
C7_Witness ==
    /\ Handled("CloseRequested")
    /\ use_events
    /\ Len(EventsOf("CloseRequested")) = 1
    /\ control_flow = "Poll"
    /\ pc = "running"

\* C8: an event for another window makes no call and changes nothing: not the
\* pending slot, the geometry, the frame timing, the modifier flags or the
\* state of the loop; Exit is set in that invocation only when the quit
\* condition was there before it.
C8_ForeignWindowDropped ==
    [][ cb'.wid # MyWindowId
          => /\ calls' = <<>>
             /\ UNCHANGED <<pc, window, config, queued_resize_event, quitting, clock,
                            timing, geometry, modifiers, request_screenshot,
                            post_scanlines, burst, tock_at>>
             /\ control_flow' = "Exit" => (control_flow = "Exit" \/ quitting) ]_vars

\* An event for another window arrived while a resize was pending.
C8_Witness ==
    /\ cb.wid # MyWindowId
    /\ cb.kind = "ScaleFactorChanged"
    /\ IsSome(queued_resize_event)
    /\ pc = "running"

\* The last step ran on_resize with send_event = true and it returned Ok.
NotifiedPassDone ==
    /\ \E i \in DOMAIN calls : calls[i].fn = "on_resize" /\ calls[i].args[4] = 1
    /\ \E i \in DOMAIN calls : calls[i].fn = "build_fbo" /\ calls[i].tag = "Ok"

\* C9: after an on_resize pass with resize_scaling and send_event = true,
\* each console is as many characters wide (high) as whole tiles of its font
\* fit in the scaler's available width (height).
C9_ConsoleGrid ==
    (resize_scaling /\ NotifiedPassDone) =>
        \A i \in Consoles :
            LET tile == FontTileSize[ConsoleFont[i]]
                w == console_size[i][1]
                h == console_size[i][2]
            IN  /\ w * tile[1] <= screen_scaler.available_width
                /\ screen_scaler.available_width < (w + 1) * tile[1]
                /\ h * tile[2] <= screen_scaler.available_height
                /\ screen_scaler.available_height < (h + 1) * tile[2]

\* A pass rescaled the consoles to an area that is no whole number of tiles of
\* the first console's font.
C9_Witness ==
    /\ resize_scaling
    /\ NotifiedPassDone
    /\ AcceptedTickDone
    /\ screen_scaler.available_width % FontTileSize[ConsoleFont[1]][1] # 0
    /\ console_size[1][1] > 0

\* C10: a step in which writing the screenshot fails still swaps the buffers,
\* clears the input state and leaves the loop running, and the screenshot
\* request is None after every tock that tried to write one.
C10_ScreenshotContained ==
    /\ (\E i \in DOMAIN calls : calls[i].fn = "save_buffer" /\ calls[i].tag = "Err")
         => (Made("swap_buffers") /\ Made("clear_input_state") /\ pc # "panicked")
    /\ Made("save_buffer") => ~request_screenshot

\* The last step ran on_resize and Framebuffer::build_fbo returned Err in it.
BuildFboFailed == \E i \in DOMAIN calls : calls[i].fn = "build_fbo" /\ calls[i].tag = "Err"

\* C11: when on_resize returns an error at an accepted tick or in the
\* ScaleFactorChanged arm, the loop goes on (no panic) and that invocation
\* renders no frame.
C11_ResizeFailureDegrades ==
    (cb.kind \in {"RedrawEventsCleared", "ScaleFactorChanged"} /\ BuildFboFailed)
        => (pc # "panicked" /\ ~Made("tock"))

\* C12: Framebuffer::build_fbo is never called with a width or a height of
\* zero: not at the startup resize, not in the ScaleFactorChanged arm, not
\* when an accepted tick applies the pending resize.
C12_NoZeroSizeTarget ==
    \A i \in DOMAIN calls :
        calls[i].fn = "build_fbo" => (calls[i].args[1] > 0 /\ calls[i].args[2] > 0)

\* C13: with frame_sleep_time = None, every RedrawEventsCleared invocation
\* that finds a window of non-zero width and does not panic runs tock, and
\* none sleeps.
C13_UncappedWhenNone ==
    (/\ cb.kind = "RedrawEventsCleared"
     /\ frame_sleep_time = None
     /\ window.size[1] # 0
     /\ pc # "panicked")
        => (Made("tock") /\ ~Made("sleep"))

\* C14: a MouseInput event for the owned window makes exactly one call,
\* on_mouse_button(id, pressed), with id 0 for Left, 1 for Right, 2 for
\* Middle and 3 + N for Other(N), and pressed iff the state is Pressed; no
\* two buttons get the same id.
C14_MouseButtonMapping ==
    /\ Handled("MouseInput") =>
         LET button == Unwrap(cb.input).button
             state == Unwrap(cb.input).state
         IN  /\ Len(calls) = 1
             /\ calls[1].fn = "on_mouse_button"
             /\ button.kind = "Left" => calls[1].args[1] = 0
             /\ button.kind = "Right" => calls[1].args[1] = 1
             /\ button.kind = "Middle" => calls[1].args[1] = 2
             /\ button.kind = "Other" => calls[1].args[1] = 3 + button.num
             /\ calls[1].args[2] = 1 <=> state = "Pressed"
             /\ calls[1].args[2] = 0 <=> state = "Released"
    /\ \A b1, b2 \in MouseButtons : ButtonId(b1) = ButtonId(b2) => b1 = b2

\* The highest other button was released and forwarded.
C14_Witness ==
    /\ Handled("MouseInput")
    /\ Unwrap(cb.input).button = [kind |-> "Other", num |-> MaxOther]
    /\ Unwrap(cb.input).state = "Released"
    /\ Len(calls) = 1
    /\ calls[1].args = <<3 + MaxOther, 0>>

\* C15: a tock that finds the whole-second count of the clock above
\* prev_seconds sets fps to (frame counter + 1) / (seconds since
\* prev_seconds), the counter to 0 and prev_seconds to the new count; any
\* other tock leaves fps and prev_seconds alone and adds one to the counter;
\* a step without tock changes none of the three.  (The counter is thus the
\* number of tocks since the last update.)
C15_FpsEstimate ==
    [][ IF (Made("tock"))'
        THEN LET now_seconds == Unwrap(tock_at') \div MsPerSec
             IN  IF now_seconds > prev_seconds
                 THEN /\ fps' = <<frames + 1, now_seconds - prev_seconds>>
                      /\ frames' = 0
                      /\ prev_seconds' = now_seconds
                 ELSE /\ fps' = fps
                      /\ prev_seconds' = prev_seconds
                      /\ frames' = frames + 1
        ELSE UNCHANGED <<fps, prev_seconds, frames>> ]_vars

\* Two frames were counted over two seconds.
C15_Witness ==
    /\ Made("tock")
    /\ fps = <<2, 2>>
    /\ frames = 0
    /\ prev_seconds = 2

\* The last step ran on_resize to its end (build_fbo returned Ok).
PassDone == \E i \in DOMAIN calls : calls[i].fn = "build_fbo" /\ calls[i].tag = "Ok"

\* C16: an on_resize pass that runs to its end calls resize_pixels and appends
\* a Resized event when send_event is true, and does neither when it is
\* false; the ScaleFactorChanged arm appends one application event in all,
\* the ScaleFactorChanged one.
C16_NotifyConditional ==
    /\ PassDone =>
         IF CallsOf("on_resize")[1].args[4] = 1
         THEN Count("resize_pixels") = 1 /\ Len(EventsOf("Resized")) = 1
         ELSE Count("resize_pixels") = 0 /\ Len(EventsOf("Resized")) = 0
    /\ (Handled("ScaleFactorChanged") /\ PassDone) =>
         /\ Count("on_event") = 1
         /\ Len(EventsOf("ScaleFactorChanged")) = 1

\* C17: a RedrawEventsCleared invocation that finds the window's width 0
\* makes no call (no on_resize, tock, swap_buffers, clear_input_state),
\* leaves the pending slot, prev_ms, prev_seconds, the frame counter, the
\* geometry and the clock as they were, does not panic, and asks for Exit
\* only when the quit condition was there before it.
C17_MinimizedWindow ==
    [][ (cb'.kind = "RedrawEventsCleared" /\ window.size[1] = 0)
          => /\ calls' = <<>>
             /\ UNCHANGED <<queued_resize_event, timing, geometry, clock, tock_at,
                            quitting, request_screenshot, post_scanlines>>
             /\ pc' # "panicked"
             /\ control_flow' = "Exit" => (control_flow = "Exit" \/ quitting)
             /\ pc' = "exited" => control_flow' = "Exit" ]_vars

\* The window was minimized after a frame, with a resize pending, and
\* RedrawEventsCleared left the loop running.
C17_Witness ==
    /\ cb.kind = "RedrawEventsCleared"
    /\ window.size[1] = 0
    /\ IsSome(queued_resize_event)
    /\ IsSome(tock_at)
    /\ pc = "running"

\* C18: when on_resize runs in the loop, the size and scale it is given are
\* the pair that the most recent Resized, Moved or ScaleFactorChanged event
\* read from the window: in the ScaleFactorChanged arm the pair it reads
\* itself, at an accepted tick the pending pair unless a ScaleFactorChanged
\* event has read a newer one since.
C18_AppliedPairIsLatest ==
    Made("on_resize") =>
        LET given == CallsOf("on_resize")[1].args
        IN  /\ cb.kind = "ScaleFactorChanged" =>
                 (<<given[1], given[2]>> = window.size /\ given[3] = window.scale)
            /\ cb.kind = "RedrawEventsCleared" =>
                 LET latest == IF IsSome(cb.applied.newer)
                               THEN Unwrap(cb.applied.newer)
                               ELSE Unwrap(cb.applied.last)
                 IN  /\ <<given[1], given[2]>> = latest.physical_size
                     /\ given[3] = latest.dpi_scale_factor
\* The last step ran tock past render_consoles.
RenderedOk == \E i \in DOMAIN calls : calls[i].fn = "render_consoles" /\ calls[i].tag = "Ok"

\* C19: in every tock that gets past render_consoles, the offscreen target
\* was bound before the application callback if and only if the composite
\* pass runs after it.
C19_OffscreenPassConsistent ==
    (Made("tock") /\ RenderedOk) => (Made("bind_backing_buffer") <=> Made("composite"))

\* C20: an accepted tick that finds a resize pending runs on_resize, and
\* after every accepted tick the pending slot is empty.
C20_PendingAppliedAndCleared ==
    AcceptedTickDone =>
        /\ IsSome(cb.applied.last) => Made("on_resize")
        /\ queued_resize_event = None
====
